---------------------------- MODULE Spec2Model ----------------------------
(***************************************************************************)
(* LegiTrack BR: the normalisation layer (utils/transforms.py), the API    *)
(* client's error contract (services/camara.py) and the search flow of     *)
(* app.py, as a state machine.                                             *)
(*                                                                         *)
(* Python values are tagged records, so that None, 0, "" and {} stay       *)
(* distinct values that are all falsy:                                     *)
(*   None           [k |-> "None"]                                         *)
(*   int n          [k |-> "int",  i |-> n]                                *)
(*   str s          [k |-> "str",  s |-> s]                                *)
(*   dict f         [k |-> "dict", d |-> f]   f a function on its keys     *)
(*   list l         [k |-> "list", l |-> l]                                *)
(*   date / datetime / pandas.Timestamp / pandas.NaT: see the date part    *)
(* A missing marker of a pandas column (None, NaN, NaT) is None here.      *)
(***************************************************************************)
EXTENDS Integers, Sequences, FiniteSets, TLC

VARIABLES
    fn,               \* the function or script under execution
    pc,               \* its position: "call", "return", or a place in app.py
    registros,        \* df_proposicoes: the argument
    df,               \* df_proposicoes: the outcome (a frame, or the exception raised)
    autores_payload,  \* extrair_autor_principal: the argument
    autor,            \* extrair_autor_principal: the outcome
    dt,               \* dias_desde: the argument
    hoje,             \* dias_desde: date.today()
    dias,             \* dias_desde: the outcome
    sg,               \* _safe_get: the arguments [d, keys, default]
    sg_ret,           \* _safe_get: the outcome
    termo,            \* app.py: the text of the search box
    dados_filtrados,  \* app.py: the records the search returned
    df_api,           \* app.py: their frame
    autores_lista,    \* app.py: the author of each row, in row order
    df_view,          \* app.py: df, the frame with its autor and dias_desde_status
    row_escolha,      \* app.py: row, the row chosen for the detail pane
    tram,             \* app.py: its tramitation events
    calls,            \* the calls issued to the API client, in order
    swallowed         \* the exceptions the author loop's except clause caught

appVars ==
    <<termo, dados_filtrados, df_api, autores_lista, df_view, row_escolha, tram, calls, swallowed>>

vars ==
    <<fn, pc, registros, df, autores_payload, autor, dt, hoje, dias, sg, sg_ret,
      termo, dados_filtrados, df_api, autores_lista, df_view, row_escolha, tram, calls, swallowed>>

---------------------------------------------------------------------------
(* Python values *)

None == [k |-> "None"]
PyInt(n) == [k |-> "int", i |-> n]
PyStr(s) == [k |-> "str", s |-> s]
PyDict(f) == [k |-> "dict", d |-> f]
PyList(l) == [k |-> "list", l |-> l]

\* bool(v): None, 0, "", {} and [] are falsy, every other value is truthy.
Truthy(v) ==
    CASE v.k = "None" -> FALSE
      [] v.k = "int"  -> v.i # 0
      [] v.k = "str"  -> v.s # ""
      [] v.k = "dict" -> DOMAIN v.d # {}
      [] v.k = "list" -> Len(v.l) # 0
      [] OTHER        -> TRUE

\* a or b, had it tested "is not None" instead of the truth value.
Or_IsNotNone(a, b) == IF a # None THEN a ELSE b

\* a or b
Or(a, b) == IF Truthy(a) THEN a ELSE b

\* The outcome of a call: the value returned, or the exception raised.
Ok(v) == [raises |-> "", value |-> v]
Raise(e) == [raises |-> e]

\* dict.get(key): the value, None when the key is missing.
Get(p, key) == IF key \in DOMAIN p THEN p[key] ELSE None

\* The spelling of the str values the model parses or lower-cases, character
\* by character (TLC's strings are atomic).
Chars(s) ==
    CASE s = ""                 -> <<>>
      [] s = "8"                -> <<"8">>
      [] s = "abc"              -> <<"a", "b", "c">>
      [] s = "not-a-date"       -> <<"n", "o", "t", "-", "a", "-", "d", "a", "t", "e">>
      [] s = "2024-01-10"       -> <<"2", "0", "2", "4", "-", "0", "1", "-", "1", "0">>
      [] s = "2024-01-15"       -> <<"2", "0", "2", "4", "-", "0", "1", "-", "1", "5">>
      [] s = "2024-03-01"       -> <<"2", "0", "2", "4", "-", "0", "3", "-", "0", "1">>
      [] s = "2023-12-31"       -> <<"2", "0", "2", "3", "-", "1", "2", "-", "3", "1">>
      [] s = "2024-02-30"       -> <<"2", "0", "2", "4", "-", "0", "2", "-", "3", "0">>
      [] s = "2024-02-29"       -> <<"2", "0", "2", "4", "-", "0", "2", "-", "2", "9">>
      [] s = "2025-01-01"       -> <<"2", "0", "2", "5", "-", "0", "1", "-", "0", "1">>
      [] s = "2024-01-10T23:59" -> <<"2", "0", "2", "4", "-", "0", "1", "-", "1", "0",
                                     "T", "2", "3", ":", "5", "9">>
      [] s = "Deputado"         -> <<"D", "e", "p", "u", "t", "a", "d", "o">>
      [] s = "DEPUTADO"         -> <<"D", "E", "P", "U", "T", "A", "D", "O">>
      [] s = "Ex-Deputado"      -> <<"E", "x", "-", "D", "e", "p", "u", "t", "a", "d", "o">>
      [] s = "Comissao"         -> <<"C", "o", "m", "i", "s", "s", "a", "o">>
      [] s = "deputado"         -> <<"d", "e", "p", "u", "t", "a", "d", "o">>
      [] s = "   "              -> <<" ", " ", " ">>
      [] s = " apostas "        -> <<" ", "a", "p", "o", "s", "t", "a", "s", " ">>

DigitValue(c) ==
    CASE c = "0" -> 0 [] c = "1" -> 1 [] c = "2" -> 2 [] c = "3" -> 3 [] c = "4" -> 4
      [] c = "5" -> 5 [] c = "6" -> 6 [] c = "7" -> 7 [] c = "8" -> 8 [] c = "9" -> 9
      [] OTHER -> -1

IsDigits(cs) == Len(cs) > 0 /\ \A j \in 1..Len(cs) : DigitValue(cs[j]) >= 0

RECURSIVE Decimal(_)
Decimal(cs) ==
    IF Len(cs) = 0 THEN 0
    ELSE 10 * Decimal(SubSeq(cs, 1, Len(cs) - 1)) + DigitValue(cs[Len(cs)])

\* int(v): an int is itself, a str of decimal digits is its number, any other
\* str raises ValueError and any other value TypeError.
int(v) ==
    CASE v.k = "int" -> Ok(v)
      [] v.k = "str" -> IF IsDigits(Chars(v.s)) THEN Ok(PyInt(Decimal(Chars(v.s))))
                        ELSE Raise("ValueError")
      [] OTHER       -> Raise("TypeError")

\* format(v) inside an f-string.
Format(v) ==
    CASE v.k = "str" -> v.s
      [] v.k = "int" -> ToString(v.i)
      [] OTHER       -> v.k

---------------------------------------------------------------------------
(* Dates *)

\* datetime.date(y, m, d), datetime.datetime(y, m, d, hh) and
\* pandas.Timestamp(y, m, d, hh); NaT is pandas.NaT.
PyDate(y, m, d) == [k |-> "date", y |-> y, m |-> m, dd |-> d]
PyDatetime(y, m, d, hh) == [k |-> "datetime", y |-> y, m |-> m, dd |-> d, hh |-> hh]
Timestamp(y, m, d, hh) == [k |-> "Timestamp", y |-> y, m |-> m, dd |-> d, hh |-> hh]
NaT == [k |-> "NaT"]

\* x.date() of a datetime or a Timestamp: the time of day is dropped.
DateOf(x) == PyDate(x.y, x.m, x.dd)

IsLeap(y) == (y % 4 = 0 /\ y % 100 # 0) \/ y % 400 = 0

DaysInMonth(y, m) ==
    CASE m \in {1, 3, 5, 7, 8, 10, 12} -> 31
      [] m \in {4, 6, 9, 11}           -> 30
      [] OTHER                         -> IF IsLeap(y) THEN 29 ELSE 28

RECURSIVE DaysBeforeMonth(_, _)
DaysBeforeMonth(y, m) ==
    IF m = 1 THEN 0 ELSE DaysBeforeMonth(y, m - 1) + DaysInMonth(y, m - 1)

\* date.toordinal(): the days since 0001-01-01, that day being 1.
ToOrdinal(x) ==
    LET y1 == x.y - 1
    IN  y1 * 365 + (y1 \div 4) - (y1 \div 100) + (y1 \div 400)
        + DaysBeforeMonth(x.y, x.m) + x.dd

\* The instant a spelled text denotes: "YYYY-MM-DD", or "YYYY-MM-DDTHH:MM",
\* with a month, a day and an hour that exist; any other text raises.
ParseText(cs) ==
    IF /\ Len(cs) \in {10, 16}
       /\ cs[5] = "-" /\ cs[8] = "-"
       /\ IsDigits(SubSeq(cs, 1, 4))
       /\ IsDigits(SubSeq(cs, 6, 7))
       /\ IsDigits(SubSeq(cs, 9, 10))
       /\ Len(cs) = 16 => /\ cs[11] = "T" /\ cs[14] = ":"
                          /\ IsDigits(SubSeq(cs, 12, 13))
                          /\ IsDigits(SubSeq(cs, 15, 16))
    THEN LET y == Decimal(SubSeq(cs, 1, 4))
             m == Decimal(SubSeq(cs, 6, 7))
             d == Decimal(SubSeq(cs, 9, 10))
             hh == IF Len(cs) = 16 THEN Decimal(SubSeq(cs, 12, 13)) ELSE 0
         IN  IF y >= 1 /\ m \in 1..12 /\ d >= 1 /\ d <= DaysInMonth(y, m) /\ hh <= 23
             THEN Ok(Timestamp(y, m, d, hh))
             ELSE Raise("ParserError")
    ELSE Raise("ParserError")

\* dateutil.parser.parse(str(value)): a str is parsed from its text; the
\* text of a date, a datetime or a Timestamp parses back to that instant; the
\* text of any other value is no date.
dateparser_parse(value) ==
    CASE value.k = "str"                     -> ParseText(Chars(value.s))
      [] value.k \in {"datetime", "Timestamp"} ->
             Ok(Timestamp(value.y, value.m, value.dd, value.hh))
      [] value.k = "date"                    -> Ok(Timestamp(value.y, value.m, value.dd, 0))
      [] OTHER                               -> Raise("ParserError")

parse_date(value) ==
    IF value \in {None, PyStr(""), NaT} THEN None
    ELSE LET parsed == dateparser_parse(value)
         IN  IF parsed.raises # "" THEN None ELSE parsed.value

\* dias_desde, had it subtracted today from the date.
dias_desde_reversed(x, today) ==
    IF x \in {None, PyStr(""), NaT} THEN None
    ELSE LET d == CASE x.k \in {"Timestamp", "datetime"} -> DateOf(x)
                     [] x.k = "date" -> x
                     [] OTHER -> LET parsed == parse_date(x)
                                 IN  IF parsed = None THEN None ELSE DateOf(parsed)
         IN  IF d = None THEN None ELSE PyInt(ToOrdinal(d) - ToOrdinal(today))

\* dias_desde(dt) with date.today() = hoje.
dias_desde(x, today) ==
    IF x \in {None, PyStr(""), NaT} THEN None
    ELSE LET d == CASE x.k \in {"Timestamp", "datetime"} -> DateOf(x)
                     [] x.k = "date" -> x
                     [] OTHER -> LET parsed == parse_date(x)
                                 IN  IF parsed = None THEN None ELSE DateOf(parsed)
         IN  IF d = None THEN None ELSE PyInt(ToOrdinal(today) - ToOrdinal(d))

---------------------------------------------------------------------------
(* utils/transforms.py: _safe_get *)

\* cur.get(k): only a dict has .get; on any other value the attribute lookup
\* raises AttributeError.
DictGet(cur, key) ==
    IF cur.k = "dict" THEN Ok(Get(cur.d, key)) ELSE Raise("AttributeError")

\* The loop of _safe_get, had its last line returned cur as it is.
RECURSIVE safe_get_from_returning_cur(_, _, _, _)
safe_get_from_returning_cur(cur, keys, i, default) ==
    IF i > Len(keys) THEN cur
    ELSE IF cur = None THEN default
    ELSE LET nxt == DictGet(cur, keys[i])
         IN  IF nxt.raises # "" THEN default
             ELSE safe_get_from_returning_cur(nxt.value, keys, i + 1, default)

\* The loop of _safe_get from the i-th key on, with cur the value reached.
RECURSIVE safe_get_from(_, _, _, _)
safe_get_from(cur, keys, i, default) ==
    IF i > Len(keys) THEN (IF cur # None THEN cur ELSE default)
    ELSE IF cur = None THEN default
    ELSE LET nxt == DictGet(cur, keys[i])
         IN  IF nxt.raises # "" THEN default
             ELSE safe_get_from(nxt.value, keys, i + 1, default)

_safe_get(d, keys, default) == safe_get_from(d, keys, 1, default)

---------------------------------------------------------------------------
(* utils/transforms.py: df_proposicoes *)

Columns ==
    <<"id", "siglaTipo", "numero", "ano", "rotulo", "ementa", "situacao",
      "tramitacao_atual", "data_status", "uri", "uriAutores", "link">>

PERMALINK == "https://www.camara.leg.br/proposicoesWeb/fichadetramitacao?idProposicao="

\* The fallback chains of the loop body, one per local variable.
id_prop(p) == Or(Get(p, "id"), Get(p, "idProposicao"))

sigla_tipo(p) == Or(Get(p, "siglaTipo"), Get(p, "sigla_tipo"))

numero(p) == Or(Or(Get(p, "numero"), Get(p, "numProposicao")), Get(p, "num"))

ano(p) == Or(Get(p, "ano"), Get(p, "anoProposicao"))

ementa(p) == Or(Get(p, "ementa"), PyStr(""))

ementa_det(p) ==
    Or(Or(Get(p, "ementaDetalhada"), Get(p, "ementa_detalhada")), PyStr(""))

uri(p) == Or(Get(p, "uri"), Get(p, "uriProposicao"))

status(p) ==
    Or(Or(Or(Get(p, "statusProposicao"), Get(p, "status_proposicao")),
          Get(p, "ultimoStatus")),
       PyDict(<<>>))

\* situacao, had the chain lacked its second candidate.
situacao_without_second(st) ==
    Or(_safe_get(st, <<"descricaoSituacao">>, None),
       _safe_get(st, <<"descricaoTramitacao">>, None))

situacao(st) ==
    Or(Or(_safe_get(st, <<"descricaoSituacao">>, None),
          _safe_get(st, <<"situacao">>, None)),
       _safe_get(st, <<"descricaoTramitacao">>, None))

tramitacao_atual(st) ==
    Or(_safe_get(st, <<"descricaoTramitacao">>, None),
       _safe_get(st, <<"apreciacao">>, None))

data_status_raw(st) ==
    Or(Or(_safe_get(st, <<"dataHora">>, None),
          _safe_get(st, <<"data">>, None)),
       _safe_get(st, <<"dataUltimoDespacho">>, None))

uri_autores(p) == Or(Get(p, "uriAutores"), Get(p, "uri_autores"))

\* if id_prop: the permalink; else: uri or ""
link(idp, u) ==
    IF Truthy(idp) THEN PyStr(PERMALINK \o Format(idp)) ELSE Or(u, PyStr(""))

\* rotulo, had the test left the year out.
rotulo_without_ano(tipo, num, year) ==
    IF Truthy(tipo) /\ Truthy(num)
    THEN PyStr(Format(tipo) \o " " \o Format(num) \o "/" \o Format(year))
    ELSE None

\* rotulo = None; if sigla_tipo and numero and ano: the f-string
rotulo(tipo, num, year) ==
    IF Truthy(tipo) /\ Truthy(num) /\ Truthy(year)
    THEN PyStr(Format(tipo) \o " " \o Format(num) \o "/" \o Format(year))
    ELSE None

\* "id": int(id_prop) if id_prop is not None else None
id_column(idp) == IF idp # None THEN int(idp) ELSE Ok(None)

\* The body of the loop for one record p: the row appended to linhas, or the
\* exception the body raises.
linha(p) ==
    LET id == id_column(id_prop(p))
    IN  IF id.raises # "" THEN Raise(id.raises)
        ELSE Ok([id               |-> id.value,
                 siglaTipo        |-> sigla_tipo(p),
                 numero           |-> numero(p),
                 ano              |-> ano(p),
                 rotulo           |-> rotulo(sigla_tipo(p), numero(p), ano(p)),
                 ementa           |-> Or(ementa(p), ementa_det(p)),
                 situacao         |-> situacao(status(p)),
                 tramitacao_atual |-> tramitacao_atual(status(p)),
                 data_status      |-> parse_date(data_status_raw(status(p))),
                 uri              |-> uri(p),
                 uriAutores       |-> uri_autores(p),
                 link             |-> link(id_prop(p), uri(p))])

\* for p in registros, from the i-th record on: the rows appended, or the
\* first exception, which ends the loop and the call.
RECURSIVE for_registros(_, _, _)
for_registros(regs, i, linhas) ==
    IF i > Len(regs) THEN Ok(linhas)
    ELSE LET row == linha(regs[i])
         IN  IF row.raises # "" THEN Raise(row.raises)
             ELSE for_registros(regs, i + 1, Append(linhas, row.value))

\* df["data_status"].apply(lambda x: x if isinstance(x, Timestamp) else parse_date(x))
ApplyDataStatus(row) ==
    [row EXCEPT !.data_status = IF @.k = "Timestamp" THEN @ ELSE parse_date(@)]

\* pandas.DataFrame: its columns in order and its rows in order.
DataFrame(columns, rows) == [columns |-> columns, rows |-> rows]

df_proposicoes(regs) ==
    LET linhas == for_registros(regs, 1, <<>>)
    IN  IF linhas.raises # "" THEN Raise(linhas.raises)
        ELSE IF Len(linhas.value) = 0 THEN Ok(DataFrame(Columns, <<>>))
        ELSE Ok(DataFrame(Columns,
                          [j \in 1..Len(linhas.value) |-> ApplyDataStatus(linhas.value[j])]))

---------------------------------------------------------------------------
(* utils/transforms.py: extrair_autor_principal *)

LowerChar(c) ==
    CASE c = "A" -> "a" [] c = "B" -> "b" [] c = "C" -> "c" [] c = "D" -> "d"
      [] c = "E" -> "e" [] c = "F" -> "f" [] c = "G" -> "g" [] c = "H" -> "h"
      [] c = "I" -> "i" [] c = "J" -> "j" [] c = "K" -> "k" [] c = "L" -> "l"
      [] c = "M" -> "m" [] c = "N" -> "n" [] c = "O" -> "o" [] c = "P" -> "p"
      [] c = "Q" -> "q" [] c = "R" -> "r" [] c = "S" -> "s" [] c = "T" -> "t"
      [] c = "U" -> "u" [] c = "V" -> "v" [] c = "W" -> "w" [] c = "X" -> "x"
      [] c = "Y" -> "y" [] c = "Z" -> "z" [] OTHER -> c

\* str.lower(), on the spelling.
lower(cs) == [j \in 1..Len(cs) |-> LowerChar(cs[j])]

\* sub in text, on the spellings.
Contains(cs, sub) ==
    \E o \in 1..(Len(cs) - Len(sub) + 1) : SubSeq(cs, o, o + Len(sub) - 1) = sub

\* "deputado" in (a.get("tipo") or "").lower()
is_deputado(a) ==
    LET tipo == Or(Get(a, "tipo"), PyStr(""))
    IN  Contains(lower(Chars(tipo.s)), Chars("deputado"))

\* The scan with no break: the last record that matches, None when none does.
RECURSIVE deputado_without_break(_, _)
deputado_without_break(payload, i) ==
    IF i > Len(payload) THEN None
    ELSE LET later == deputado_without_break(payload, i + 1)
         IN  IF later # None THEN later
             ELSE IF is_deputado(payload[i]) THEN PyDict(payload[i]) ELSE None

\* for a in autores_payload, from the i-th record on: the first record that
\* matches, None when none does.
RECURSIVE deputado(_, _)
deputado(payload, i) ==
    IF i > Len(payload) THEN None
    ELSE IF is_deputado(payload[i]) THEN PyDict(payload[i])
    ELSE deputado(payload, i + 1)

AllNull == [nome |-> None, partido |-> None, uf |-> None, tipoAutor |-> None]

extrair_autor_principal(payload) ==
    IF Len(payload) = 0 THEN AllNull
    ELSE LET a == Or(deputado(payload, 1), PyDict(payload[1])).d
         IN  [nome      |-> Or(Or(Get(a, "nome"), Get(a, "nomeAutor")),
                               Get(a, "nomeAutorPrimeiroSignatario")),
              partido   |-> Or(Or(Or(Get(a, "siglaPartido"), Get(a, "siglaPartidoAutor")),
                                  Get(a, "sigla_partido")),
                               Get(a, "partido")),
              uf        |-> Or(Or(Or(Or(Get(a, "siglaUf"), Get(a, "siglaUF")),
                                     Get(a, "uf")),
                                  Get(a, "ufAutor")),
                               Get(a, "siglaUfAutor")),
              tipoAutor |-> Get(a, "tipo")]

---------------------------------------------------------------------------
(* services/camara.py *)

\* _get: the decoded body of the response, or CamaraAPIError for any failure
\* of the request. bodies are the bodies the server may answer with.
_get(bodies) == {Raise("CamaraAPIError")} \cup {Ok(x) : x \in bodies}

---------------------------------------------------------------------------
(* The inputs *)

MaxRecords == 2

\* Marks a key a raw record does not carry; it is no Python value.
Absent == [k |-> "absent"]

\* The mapping with the keys of f that are not Absent.
Rec(f) == [key \in {x \in DOMAIN f : f[x] # Absent} |-> f[key]]

IdValues ==
    {Absent, None, PyInt(0), PyInt(7), PyStr(""), PyStr("8"), PyStr("abc")}

IdUriRecords ==
    {Rec([id |-> a, idProposicao |-> b, uri |-> c, uriProposicao |-> e]) :
        a \in IdValues, b \in IdValues,
        c \in {Absent, PyStr(""), PyStr("https://x")},
        e \in {Absent, PyStr("https://y")}}

LabelRecords ==
    {Rec([siglaTipo |-> t1, sigla_tipo |-> t2, numero |-> n1, numProposicao |-> n2,
          num |-> n3, ano |-> y1, anoProposicao |-> y2]) :
        t1 \in {Absent, None, PyStr(""), PyStr("PL")},
        t2 \in {Absent, PyStr("PEC")},
        n1 \in {Absent, None, PyInt(0), PyInt(1234)},
        n2 \in {Absent, PyInt(55)},
        n3 \in {Absent, PyInt(9)},
        y1 \in {Absent, None, PyInt(0), PyInt(2024)},
        y2 \in {Absent, PyInt(2023)}}

EmentaRecords ==
    {Rec([ementa |-> e1, ementaDetalhada |-> e2, ementa_detalhada |-> e3]) :
        e1 \in {Absent, None, PyStr(""), PyStr("Altera a lei")},
        e2 \in {Absent, None, PyStr(""), PyStr("Altera a lei; detalhe")},
        e3 \in {Absent, PyStr("Altera a lei; outro detalhe")}}

SituacaoBlocks ==
    {PyDict(Rec([descricaoSituacao |-> a, situacao |-> b, descricaoTramitacao |-> c,
                 apreciacao |-> e])) :
        a \in {Absent, None, PyStr(""), PyStr("Em tramitacao")},
        b \in {Absent, PyStr(""), PyStr("Arquivada")},
        c \in {Absent, PyStr(""), PyStr("Aguardando parecer")},
        e \in {Absent, PyStr("Plenario")}}

DataBlocks ==
    {PyDict(Rec([dataHora |-> a, data |-> b, dataUltimoDespacho |-> c])) :
        a \in {Absent, None, PyStr(""), PyStr("not-a-date"), PyStr("2024-01-10T23:59")},
        b \in {Absent, PyStr("2024-01-15"), PyStr("2024-02-30")},
        c \in {Absent, PyStr("2023-12-31")}}

\* A status block that is no mapping: a str, an int, a list.
NotAMapping == {PyStr("Arquivada"), PyInt(3), PyList(<<PyStr("Arquivada")>>)}

StatusRecords ==
    {Rec([statusProposicao |-> b]) : b \in SituacaoBlocks \cup DataBlocks}
    \cup
    {Rec([statusProposicao |-> a, status_proposicao |-> b, ultimoStatus |-> c]) :
        a \in {Absent, None, PyDict(<<>>), PyDict([situacao |-> PyStr("Arquivada")])}
              \cup NotAMapping,
        b \in {Absent, PyDict(<<>>), PyDict([situacao |-> PyStr("Pronta para pauta")]),
               PyInt(3)},
        c \in {Absent, PyDict([descricaoSituacao |-> PyStr("Em tramitacao")])}}

AutoresRecords ==
    {Rec([uriAutores |-> a, uri_autores |-> b]) :
        a \in {Absent, None, PyStr(""), PyStr("https://a")},
        b \in {Absent, PyStr("https://b")}}

RawRecords ==
    IdUriRecords \cup LabelRecords \cup EmentaRecords \cup StatusRecords
    \cup AutoresRecords

\* The records of the batches of two records and more.
BatchRecords ==
    {Rec([id |-> a, siglaTipo |-> t, numero |-> n, ano |-> y, statusProposicao |-> b]) :
        a \in {Absent, PyInt(7), PyStr("abc")},
        t \in {Absent, PyStr("PL")},
        n \in {PyInt(1234)},
        y \in {Absent, PyInt(2024)},
        b \in {Absent, PyStr("Arquivada")}}

\* The same logical data under the first-choice and under the second-choice
\* field names.
LogicalData ==
    [id : {PyInt(7), PyInt(0)}, tipo : {PyStr("PL"), PyStr("")},
     numero : {PyInt(1234), PyInt(0)}, ano : {PyInt(2024), PyInt(0)},
     ementa : {PyStr("Altera a lei"), PyStr("")},
     situacao : {PyStr("Em tramitacao"), PyStr("")},
     tramitacao : {PyStr("Aguardando parecer"), PyStr("")},
     data : {PyStr("2024-01-10"), PyStr("")},
     autores : {PyStr("https://a"), PyStr("")}]

FirstChoice(x) ==
    [id |-> x.id, siglaTipo |-> x.tipo, numero |-> x.numero, ano |-> x.ano,
     ementa |-> x.ementa,
     statusProposicao |-> PyDict([descricaoSituacao   |-> x.situacao,
                                  descricaoTramitacao |-> x.tramitacao,
                                  dataHora            |-> x.data]),
     uriAutores |-> x.autores]

SecondChoice(x) ==
    [idProposicao |-> x.id, sigla_tipo |-> x.tipo, numProposicao |-> x.numero,
     anoProposicao |-> x.ano, ementaDetalhada |-> x.ementa,
     status_proposicao |-> PyDict([situacao   |-> x.situacao,
                                   apreciacao |-> x.tramitacao,
                                   data       |-> x.data]),
     uri_autores |-> x.autores]

ShapePairs == {<<FirstChoice(x), SecondChoice(x)>> : x \in LogicalData}

Batches ==
    {<<>>} \cup {<<r>> : r \in RawRecords}
    \cup UNION {[1..n -> BatchRecords] : n \in 2..MaxRecords}
    \cup ShapePairs

MaxAutores == 2

\* The fields of an author record other than its role, in the shapes the API
\* has used.
AutorFields ==
    {[nome |-> PyStr("Ana"), siglaPartido |-> PyStr("PT"), siglaUf |-> PyStr("SP")],
     [nomeAutor |-> PyStr("Bia"), partido |-> PyStr("PL"), uf |-> PyStr("RJ")],
     [nome |-> PyStr(""), nomeAutorPrimeiroSignatario |-> PyStr("Caio"),
      siglaPartidoAutor |-> PyStr("MDB"), siglaUF |-> PyStr("MG")],
     <<>>}

TipoValues ==
    {Absent, None, PyStr(""), PyStr("Deputado"), PyStr("DEPUTADO"),
     PyStr("Ex-Deputado"), PyStr("Comissao")}

AutorRecords ==
    {[key \in DOMAIN f \cup (IF t = Absent THEN {} ELSE {"tipo"}) |->
         IF key = "tipo" THEN t ELSE f[key]] :
        f \in AutorFields, t \in TipoValues}

Payloads == UNION {[1..n -> AutorRecords] : n \in 0..MaxAutores}

Dates ==
    {PyDate(2023, 12, 31), PyDate(2024, 1, 10), PyDate(2024, 1, 15),
     PyDate(2024, 2, 29), PyDate(2024, 3, 1), PyDate(2025, 1, 1)}

DateTexts ==
    {PyStr("2023-12-31"), PyStr("2024-01-10"), PyStr("2024-01-15"),
     PyStr("2024-02-29"), PyStr("2024-03-01"), PyStr("2025-01-01"),
     PyStr("2024-01-10T23:59")}

NoDateTexts == {PyStr("not-a-date"), PyStr("2024-02-30"), PyStr("abc")}

DiasArguments ==
    {None, PyStr(""), NaT}
    \cup Dates
    \cup {PyDatetime(x.y, x.m, x.dd, hh) : x \in Dates, hh \in {0, 23}}
    \cup {Timestamp(x.y, x.m, x.dd, hh) : x \in Dates, hh \in {0, 23}}
    \cup DateTexts \cup NoDateTexts
    \cup {PyDict(<<>>), PyList(<<PyStr("2024-01-10")>>)}

MaxKeys == 2

Leaves == {Absent, None, PyStr("w")}

InnerDicts == {PyDict(Rec([a |-> x, b |-> y])) : x \in Leaves, y \in Leaves}

Containers ==
    {None, PyStr("v"), PyInt(0)}
    \cup {PyDict(Rec([a |-> x, b |-> y])) :
             x \in {Absent, None, PyInt(0), PyStr("v")} \cup InnerDicts,
             y \in {Absent, PyStr("v")} \cup InnerDicts}

KeySequences == UNION {[1..n -> {"a", "b"}] : n \in 0..MaxKeys}

NotCalled == "-"

AppNotRun ==
    /\ termo = NotCalled /\ dados_filtrados = NotCalled /\ df_api = NotCalled
    /\ autores_lista = NotCalled /\ df_view = NotCalled /\ row_escolha = NotCalled
    /\ tram = NotCalled /\ calls = NotCalled /\ swallowed = NotCalled

---------------------------------------------------------------------------
(* The calls *)

---------------------------------------------------------------------------
(* app.py: the search *)

itens_max == 10

\* What the API may answer: to the search, to the authors of a proposition,
\* to its tramitation events.
AppRecords ==
    {[id |-> PyInt(7), siglaTipo |-> PyStr("PL"), numero |-> PyInt(1234),
      ano |-> PyInt(2024),
      statusProposicao |-> PyDict([dataHora |-> PyStr("2024-01-10")])],
     [idProposicao |-> PyInt(8), ementa |-> PyStr("Altera a lei")],
     [siglaTipo |-> PyStr("PEC"), numero |-> PyInt(55), ano |-> PyInt(2023)],
     [id |-> PyStr("abc")]}

AppBatches == UNION {[1..n -> AppRecords] : n \in 0..MaxRecords}

AppPayloads ==
    {<<>>,
     <<[tipo |-> PyStr("Comissao"), nome |-> PyStr("Ana")],
       [tipo |-> PyStr("Deputado"), nome |-> PyStr("Bia"), siglaPartido |-> PyStr("PT"),
        siglaUf |-> PyStr("SP")]>>}

TramPayloads == {<<>>, <<[dataHora |-> PyStr("2024-01-10"), despacho |-> PyStr("Apense-se")]>>}

buscar_proposicoes_por_tema(t) == _get(AppBatches)

autores_por_proposicao(idp) == _get(AppPayloads)

tramitacoes(idp) == _get(TramPayloads)

\* str.strip(), on the spelling.
RECURSIVE strip(_)
strip(cs) ==
    IF Len(cs) > 0 /\ Head(cs) = " " THEN strip(Tail(cs))
    ELSE IF Len(cs) > 0 /\ cs[Len(cs)] = " " THEN strip(SubSeq(cs, 1, Len(cs) - 1))
    ELSE cs

\* A call to the API client: the function, its id argument, the row it was
\* made for (0 for the search) and the exception it raised, if any.
Call(f, idp, i, resp) == [fn |-> f, id |-> idp, row |-> i, raises |-> resp.raises]

InitApp ==
    /\ fn = "app.py" /\ pc = "buscar"
    /\ termo \in {PyStr(""), PyStr("   "), PyStr(" apostas ")}
    /\ hoje \in {PyDate(2024, 1, 15)}
    /\ calls = <<>> /\ swallowed = <<>>
    /\ dados_filtrados = NotCalled /\ df_api = NotCalled /\ autores_lista = NotCalled
    /\ df_view = NotCalled /\ row_escolha = NotCalled /\ tram = NotCalled
    /\ registros = NotCalled /\ df = NotCalled
    /\ autores_payload = NotCalled /\ autor = NotCalled
    /\ dt = NotCalled /\ dias = NotCalled
    /\ sg = NotCalled /\ sg_ret = NotCalled

\* Lines 76-107: the search, its frame, and the handler of what they raise.
Buscar ==
    /\ fn = "app.py" /\ pc = "buscar"
    /\ IF strip(Chars(termo.s)) = <<>>
       THEN /\ pc' = "st.stop"
            /\ UNCHANGED <<dados_filtrados, df_api, autores_lista, calls>>
       ELSE \E resp \in buscar_proposicoes_por_tema(strip(Chars(termo.s))) :
            /\ calls' = Append(calls, Call("buscar_proposicoes_por_tema", None, 0, resp))
            /\ IF resp.raises # ""
               THEN /\ pc' = "except CamaraAPIError"
                    /\ UNCHANGED <<dados_filtrados, df_api, autores_lista>>
               ELSE IF Len(resp.value) = 0
               THEN /\ pc' = "st.stop"
                    /\ dados_filtrados' = resp.value
                    /\ UNCHANGED <<df_api, autores_lista>>
               ELSE LET dados == SubSeq(resp.value, 1,
                                        IF Len(resp.value) < itens_max
                                        THEN Len(resp.value) ELSE itens_max)
                        frame == df_proposicoes(dados)
                    IN  /\ dados_filtrados' = dados
                        /\ IF frame.raises # ""
                           THEN /\ pc' = "except Exception"
                                /\ UNCHANGED <<df_api, autores_lista>>
                           ELSE /\ df_api' = frame.value
                                /\ autores_lista' = <<>>
                                /\ pc' = IF Len(frame.value.rows) = 0
                                         THEN "st.stop" ELSE "autores"
    /\ UNCHANGED <<fn, registros, df, autores_payload, autor, dt, hoje, dias, sg, sg_ret,
                   termo, df_view, row_escolha, tram, swallowed>>

\* The author loop without the int() of line 110: the lookup is issued with
\* whatever the id column holds.
AutorDaLinha_without_int ==
    /\ fn = "app.py" /\ pc = "autores"
    /\ LET i       == Len(autores_lista) + 1
           row_api == df_api.rows[i]
       IN  \E resp \in autores_por_proposicao(row_api.id) :
               /\ calls' = Append(calls,
                                  Call("autores_por_proposicao", row_api.id, i, resp))
               /\ autores_lista' =
                      Append(autores_lista,
                             IF resp.raises # "" THEN None
                             ELSE extrair_autor_principal(resp.value))
               /\ swallowed' = IF resp.raises # "" THEN Append(swallowed, resp.raises)
                               ELSE swallowed
               /\ pc' = IF i = Len(df_api.rows) THEN "render" ELSE "autores"
    /\ UNCHANGED <<fn, registros, df, autores_payload, autor, dt, hoje, dias, sg, sg_ret,
                   termo, dados_filtrados, df_api, df_view, row_escolha, tram>>

\* Lines 108-114: one turn of the author loop. int(row_api["id"]) raises for
\* a missing id before any call is made; except Exception catches that, and
\* whatever the call or extrair_autor_principal raises.
AutorDaLinha ==
    /\ fn = "app.py" /\ pc = "autores"
    /\ LET i       == Len(autores_lista) + 1
           row_api == df_api.rows[i]
           idv     == int(row_api.id)
       IN  \E resp \in (IF idv.raises # "" THEN {idv}
                        ELSE autores_por_proposicao(idv.value)) :
               /\ calls' = IF idv.raises # "" THEN calls
                           ELSE Append(calls,
                                    Call("autores_por_proposicao", idv.value, i, resp))
               /\ autores_lista' =
                      Append(autores_lista,
                             IF resp.raises # "" THEN None
                             ELSE extrair_autor_principal(resp.value))
               /\ swallowed' = IF resp.raises # "" THEN Append(swallowed, resp.raises)
                               ELSE swallowed
               /\ pc' = IF i = Len(df_api.rows) THEN "render" ELSE "autores"
    /\ UNCHANGED <<fn, registros, df, autores_payload, autor, dt, hoje, dias, sg, sg_ret,
                   termo, dados_filtrados, df_api, df_view, row_escolha, tram>>

\* Lines 116-218: df with its autor and dias_desde_status columns; the table,
\* the downloads and the charts read it.
Render ==
    /\ fn = "app.py" /\ pc = "render"
    /\ df_view' =
           [j \in 1..Len(df_api.rows) |->
               [c \in DOMAIN df_api.rows[j] \cup {"autor", "dias_desde_status"} |->
                   CASE c = "autor" -> autores_lista[j]
                     [] c = "dias_desde_status" ->
                            dias_desde(df_api.rows[j].data_status, hoje)
                     [] OTHER -> df_api.rows[j][c]]]
    /\ pc' = "detalhe"
    /\ UNCHANGED <<fn, registros, df, autores_payload, autor, dt, hoje, dias, sg, sg_ret,
                   termo, dados_filtrados, df_api, autores_lista, row_escolha, tram, calls,
                   swallowed>>

\* Lines 220-293: the selectbox gives one of the labels; the row is the first
\* with that label (no row equals a None label: .iloc[0] raises IndexError);
\* int(row["id"]) raises for a missing id; tramitacoes may raise
\* CamaraAPIError. Lines 295-299 handle what is raised.
Detalhe ==
    /\ fn = "app.py" /\ pc = "detalhe"
    /\ \E escolha \in {df_view[j].rotulo : j \in 1..Len(df_view)} :
           LET found == {j \in 1..Len(df_view) :
                            escolha # None /\ df_view[j].rotulo = escolha}
           IN  IF found = {}
               THEN /\ pc' = "except Exception"
                    /\ UNCHANGED <<row_escolha, tram, calls>>
               ELSE LET first == CHOOSE j \in found : \A h \in found : j <= h
                        idv   == int(df_view[first].id)
                    IN  /\ row_escolha' = df_view[first]
                        /\ IF idv.raises # ""
                           THEN /\ pc' = "except Exception"
                                /\ UNCHANGED <<tram, calls>>
                           ELSE \E resp \in tramitacoes(idv.value) :
                                    /\ calls' = Append(calls,
                                           Call("tramitacoes", idv.value, first, resp))
                                    /\ IF resp.raises # ""
                                       THEN pc' = "except CamaraAPIError" /\ UNCHANGED tram
                                       ELSE pc' = "done" /\ tram' = resp.value
    /\ UNCHANGED <<fn, registros, df, autores_payload, autor, dt, hoje, dias, sg, sg_ret,
                   termo, dados_filtrados, df_api, autores_lista, df_view, swallowed>>

InitDfProposicoes ==
    /\ fn = "df_proposicoes" /\ pc = "call"
    /\ registros \in Batches
    /\ df = NotCalled
    /\ autores_payload = NotCalled /\ autor = NotCalled
    /\ dt = NotCalled /\ hoje = NotCalled /\ dias = NotCalled
    /\ sg = NotCalled /\ sg_ret = NotCalled
    /\ AppNotRun

CallDfProposicoes ==
    /\ fn = "df_proposicoes" /\ pc = "call"
    /\ df' = df_proposicoes(registros)
    /\ pc' = "return"
    /\ UNCHANGED <<fn, registros, autores_payload, autor, dt, hoje, dias, sg, sg_ret, appVars>>

InitExtrairAutorPrincipal ==
    /\ fn = "extrair_autor_principal" /\ pc = "call"
    /\ autores_payload \in Payloads
    /\ autor = NotCalled
    /\ registros = NotCalled /\ df = NotCalled
    /\ dt = NotCalled /\ hoje = NotCalled /\ dias = NotCalled
    /\ sg = NotCalled /\ sg_ret = NotCalled
    /\ AppNotRun

CallExtrairAutorPrincipal ==
    /\ fn = "extrair_autor_principal" /\ pc = "call"
    /\ autor' = extrair_autor_principal(autores_payload)
    /\ pc' = "return"
    /\ UNCHANGED <<fn, registros, df, autores_payload, dt, hoje, dias, sg, sg_ret, appVars>>

InitDiasDesde ==
    /\ fn = "dias_desde" /\ pc = "call"
    /\ dt \in DiasArguments
    /\ hoje \in Dates
    /\ dias = NotCalled
    /\ registros = NotCalled /\ df = NotCalled
    /\ autores_payload = NotCalled /\ autor = NotCalled
    /\ sg = NotCalled /\ sg_ret = NotCalled
    /\ AppNotRun

CallDiasDesde ==
    /\ fn = "dias_desde" /\ pc = "call"
    /\ dias' = dias_desde(dt, hoje)
    /\ pc' = "return"
    /\ UNCHANGED <<fn, registros, df, autores_payload, autor, dt, hoje, sg, sg_ret, appVars>>

InitSafeGet ==
    /\ fn = "_safe_get" /\ pc = "call"
    /\ sg \in [d : Containers, keys : KeySequences, default : {None, PyStr("padrao")}]
    /\ sg_ret = NotCalled
    /\ registros = NotCalled /\ df = NotCalled
    /\ autores_payload = NotCalled /\ autor = NotCalled
    /\ dt = NotCalled /\ hoje = NotCalled /\ dias = NotCalled
    /\ AppNotRun

CallSafeGet ==
    /\ fn = "_safe_get" /\ pc = "call"
    /\ sg_ret' = _safe_get(sg.d, sg.keys, sg.default)
    /\ pc' = "return"
    /\ UNCHANGED <<fn, registros, df, autores_payload, autor, dt, hoje, dias, sg, appVars>>

Init ==
    \/ InitDfProposicoes
    \/ InitExtrairAutorPrincipal
    \/ InitDiasDesde
    \/ InitSafeGet
    \/ InitApp

Next ==
    \/ CallDfProposicoes
    \/ CallExtrairAutorPrincipal
    \/ CallDiasDesde
    \/ CallSafeGet
    \/ Buscar
    \/ AutorDaLinha
    \/ Render
    \/ Detalhe

Spec == Init /\ [][Next]_vars

---------------------------------------------------------------------------
(* df_proposicoes: the claims *)

Returned == fn = "df_proposicoes" /\ pc = "return"

Framed == Returned /\ df.raises = ""

\* The candidates of a chain: the values of the keys, None for a missing key.
Candidates(p, keys) == [j \in 1..Len(keys) |-> Get(p, keys[j])]

\* The first candidate that is not None; None when there is none.
FirstNonNull(vals) ==
    IF \E j \in 1..Len(vals) : vals[j] # None
    THEN vals[CHOOSE j \in 1..Len(vals) :
                  vals[j] # None /\ \A h \in 1..(j - 1) : vals[h] = None]
    ELSE None

\* Neither None, nor 0, nor "", nor an empty dict or list.
NonEmpty(v) ==
    v \notin {None, PyInt(0), PyStr(""), PyDict(<<>>), PyList(<<>>)}

\* The first candidate that is non-empty; the last candidate when there is none.
FirstNonEmpty(vals) ==
    IF \E j \in 1..Len(vals) : NonEmpty(vals[j])
    THEN vals[CHOOSE j \in 1..Len(vals) :
                  NonEmpty(vals[j]) /\ \A h \in 1..(j - 1) : ~NonEmpty(vals[h])]
    ELSE vals[Len(vals)]

\* The candidates of a chain inside the status block: None for every key when
\* the block is no mapping.
StatusCandidates(block, keys) ==
    [j \in 1..Len(keys) |-> IF block.k = "dict" THEN Get(block.d, keys[j]) ELSE None]

StatusKeys == <<"statusProposicao", "status_proposicao", "ultimoStatus">>

\* C1: df_proposicoes returns, for every batch of n raw records, a frame of
\* exactly n rows, row i being the row of record i alone, and for the empty
\* batch a frame of no rows with the twelve canonical columns.
C1_OneRowPerRecord ==
    Returned =>
        /\ df.raises = ""
        /\ df.value.columns = Columns
        /\ Len(df.value.rows) = Len(registros)
        /\ \A i \in 1..Len(registros) :
               /\ df_proposicoes(<<registros[i]>>).raises = ""
               /\ df.value.rows[i] = df_proposicoes(<<registros[i]>>).value.rows[1]

\* C2: no exception is propagated from the resolution of a record, whatever
\* its fields hold: the call returns a frame with a row for every record.
C2_NoExceptionPropagated ==
    Returned => df.raises = "" /\ Len(df.value.rows) = Len(registros)

\* C3, as claimed: every chain yields its first candidate that is present
\* and not None, even one that is 0 or "", and None only when there is none.
C3_FirstNonNullWins ==
    Framed =>
        \A i \in 1..Len(registros) :
            LET p   == registros[i]
                row == df.value.rows[i]
                st  == FirstNonNull(Candidates(p, StatusKeys) \o <<PyDict(<<>>)>>)
            IN  /\ row.siglaTipo = FirstNonNull(Candidates(p, <<"siglaTipo", "sigla_tipo">>))
                /\ row.numero = FirstNonNull(Candidates(p, <<"numero", "numProposicao", "num">>))
                /\ row.ano = FirstNonNull(Candidates(p, <<"ano", "anoProposicao">>))
                /\ row.uri = FirstNonNull(Candidates(p, <<"uri", "uriProposicao">>))
                /\ row.uriAutores = FirstNonNull(Candidates(p, <<"uriAutores", "uri_autores">>))
                /\ row.situacao = FirstNonNull(StatusCandidates(st,
                       <<"descricaoSituacao", "situacao", "descricaoTramitacao">>))
                /\ row.tramitacao_atual = FirstNonNull(StatusCandidates(st,
                       <<"descricaoTramitacao", "apreciacao">>))

\* C3, amended: every chain yields its first candidate that is truthy (not
\* None, not 0, not empty), and the last candidate when none is truthy: None
\* for a missing key, "" for the summary text, {} for the status block.
C3_FirstTruthyWins ==
    Framed =>
        \A i \in 1..Len(registros) :
            LET p   == registros[i]
                row == df.value.rows[i]
                st  == FirstNonEmpty(Candidates(p, StatusKeys) \o <<PyDict(<<>>)>>)
            IN  /\ row.siglaTipo = FirstNonEmpty(Candidates(p, <<"siglaTipo", "sigla_tipo">>))
                /\ row.numero = FirstNonEmpty(Candidates(p, <<"numero", "numProposicao", "num">>))
                /\ row.ano = FirstNonEmpty(Candidates(p, <<"ano", "anoProposicao">>))
                /\ row.uri = FirstNonEmpty(Candidates(p, <<"uri", "uriProposicao">>))
                /\ row.uriAutores = FirstNonEmpty(Candidates(p, <<"uriAutores", "uri_autores">>))
                /\ row.ementa = FirstNonEmpty(Candidates(p,
                       <<"ementa", "ementaDetalhada", "ementa_detalhada">>) \o <<PyStr("")>>)
                /\ row.situacao = FirstNonEmpty(StatusCandidates(st,
                       <<"descricaoSituacao", "situacao", "descricaoTramitacao">>))
                /\ row.tramitacao_atual = FirstNonEmpty(StatusCandidates(st,
                       <<"descricaoTramitacao", "apreciacao">>))
                /\ row.data_status = parse_date(FirstNonEmpty(StatusCandidates(st,
                       <<"dataHora", "data", "dataUltimoDespacho">>)))
                /\ LET idp == FirstNonEmpty(Candidates(p, <<"id", "idProposicao">>))
                   IN  row.id = IF idp = None THEN None ELSE int(idp).value

\* A frame whose first row took a later candidate over an earlier one that
\* is present and 0, and whose status came from the first candidate.
C3_Witness ==
    /\ Framed /\ Len(registros) = 1
    /\ Get(registros[1], "numero") = PyInt(0)
    /\ Get(registros[1], "numProposicao") = PyInt(55)
    /\ df.value.rows[1].numero = PyInt(55)

\* C4: the link of every row is the permalink of the row's id when the id is
\* not None, else the row's uri when there is one, else ""; it is never
\* None, and a row with an id has a link that embeds it.
C4_LinkEmbedsId ==
    Framed =>
        \A i \in 1..Len(registros) :
            LET row == df.value.rows[i]
            IN  /\ row.link # None
                /\ row.link = IF row.id # None THEN PyStr(PERMALINK \o Format(row.id))
                              ELSE IF row.uri # None THEN row.uri
                              ELSE PyStr("")

\* C5: the label of a row is not None exactly when the resolved type, number
\* and year are all truthy, and is then "{type} {number}/{year}" of those
\* values; a row with no label is in the frame all the same.
C5_Label ==
    Framed =>
        /\ Len(df.value.rows) = Len(registros)
        /\ \A i \in 1..Len(registros) :
               LET row == df.value.rows[i]
                   all == /\ NonEmpty(row.siglaTipo)
                          /\ NonEmpty(row.numero)
                          /\ NonEmpty(row.ano)
               IN  /\ row.rotulo # None <=> all
                   /\ all => row.rotulo = PyStr(Format(row.siglaTipo) \o " "
                                 \o Format(row.numero) \o "/" \o Format(row.ano))

\* A frame of two rows, the first without a label, the second labelled.
C5_Witness ==
    /\ Framed /\ Len(registros) = 2
    /\ df.value.rows[1].rotulo = None
    /\ df.value.rows[2].rotulo = PyStr("PL 1234/2024")

\* The canonical values two rows are compared on.
SameValues(r1, r2) ==
    \A c \in {"id", "siglaTipo", "numero", "ano", "rotulo", "ementa", "situacao",
              "tramitacao_atual", "data_status", "uriAutores", "link"} :
        r1[c] = r2[c]

\* The batch holds one logical datum, every value of which is truthy, under
\* the first-choice names and then under the second-choice names.
TruthyShapePair ==
    \E x \in LogicalData :
        /\ registros = <<FirstChoice(x), SecondChoice(x)>>
        /\ \A f \in DOMAIN x : NonEmpty(x[f])

\* C9, as claimed: a record under the first-choice names and the record of
\* the same data under the second-choice names normalise to the same values.
C9_SameValuesUnderBothShapes ==
    (Returned /\ registros \in ShapePairs) =>
        /\ df.raises = ""
        /\ SameValues(df.value.rows[1], df.value.rows[2])

\* C9, amended: they do when every value of the data is truthy.
C9_SameValuesWhenTruthy ==
    (Returned /\ TruthyShapePair) =>
        /\ df.raises = ""
        /\ SameValues(df.value.rows[1], df.value.rows[2])

\* Both shapes of a fully populated datum were normalised, and its status
\* came out of the second-choice key of the second record.
C9_Witness ==
    /\ Returned /\ TruthyShapePair
    /\ df.raises = ""
    /\ df.value.rows[2].situacao = PyStr("Em tramitacao")
    /\ df.value.rows[2].id = PyInt(7)

---------------------------------------------------------------------------
(* extrair_autor_principal: the claim *)

AutorReturned == fn = "extrair_autor_principal" /\ pc = "return"

\* The role texts of the payloads that contain "deputado" in some case.
DeputadoTexts == {PyStr("Deputado"), PyStr("DEPUTADO"), PyStr("Ex-Deputado")}

RoleMatches(a) == "tipo" \in DOMAIN a /\ a["tipo"] \in DeputadoTexts

\* The first record whose role matches; the first record when none does.
Principal(payload) ==
    IF \E j \in 1..Len(payload) : RoleMatches(payload[j])
    THEN payload[CHOOSE j \in 1..Len(payload) :
                     RoleMatches(payload[j])
                     /\ \A h \in 1..(j - 1) : ~RoleMatches(payload[h])]
    ELSE payload[1]

\* C6: extrair_autor_principal resolves nome, partido, uf and tipoAutor from
\* one record, the first whose "tipo" contains "deputado" in any case, or
\* the first record when no role matches; the empty list gives all None.
C6_PrincipalAuthor ==
    AutorReturned =>
        IF Len(autores_payload) = 0 THEN autor = AllNull
        ELSE LET a == Principal(autores_payload)
             IN  /\ autor.nome = FirstNonEmpty(Candidates(a,
                        <<"nome", "nomeAutor", "nomeAutorPrimeiroSignatario">>))
                 /\ autor.partido = FirstNonEmpty(Candidates(a,
                        <<"siglaPartido", "siglaPartidoAutor", "sigla_partido", "partido">>))
                 /\ autor.uf = FirstNonEmpty(Candidates(a,
                        <<"siglaUf", "siglaUF", "uf", "ufAutor", "siglaUfAutor">>))
                 /\ autor.tipoAutor = Get(a, "tipo")

\* A committee came first and a deputy second, and the deputy was returned.
C6_Witness ==
    /\ AutorReturned /\ Len(autores_payload) = 2
    /\ Get(autores_payload[1], "tipo") = PyStr("Comissao")
    /\ Get(autores_payload[1], "nome") = PyStr("Ana")
    /\ Get(autores_payload[2], "tipo") = PyStr("DEPUTADO")
    /\ autor.nome = PyStr("Bia")
    /\ autor.tipoAutor = PyStr("DEPUTADO")

---------------------------------------------------------------------------
(* dias_desde: the claim *)

DiasReturned == fn = "dias_desde" /\ pc = "return"

\* The calendar, counted from 2023-12-31 (2024 is a leap year).
DayNumber(x) ==
    CASE x = PyDate(2023, 12, 31) -> 0
      [] x = PyDate(2024, 1, 10)  -> 10
      [] x = PyDate(2024, 1, 15)  -> 15
      [] x = PyDate(2024, 2, 29)  -> 60
      [] x = PyDate(2024, 3, 1)   -> 61
      [] x = PyDate(2025, 1, 1)   -> 367

\* The calendar date of an argument that has one.
CalendarDate(x) ==
    CASE x.k \in {"date", "datetime", "Timestamp"} -> PyDate(x.y, x.m, x.dd)
      [] x = PyStr("2023-12-31")       -> PyDate(2023, 12, 31)
      [] x = PyStr("2024-01-10")       -> PyDate(2024, 1, 10)
      [] x = PyStr("2024-01-10T23:59") -> PyDate(2024, 1, 10)
      [] x = PyStr("2024-01-15")       -> PyDate(2024, 1, 15)
      [] x = PyStr("2024-02-29")       -> PyDate(2024, 2, 29)
      [] x = PyStr("2024-03-01")       -> PyDate(2024, 3, 1)
      [] x = PyStr("2025-01-01")       -> PyDate(2025, 1, 1)

HasCalendarDate(x) ==
    x.k \in {"date", "datetime", "Timestamp"} \/ x \in DateTexts

\* C8: dias_desde gives None for None, "" and every value that is no date,
\* and for a value of calendar date d the days from d to today: negative for
\* a date to come, 0 for today, 5 for 2024-01-10 on 2024-01-15.
C8_DaysSince ==
    DiasReturned =>
        dias = IF HasCalendarDate(dt)
               THEN PyInt(DayNumber(hoje) - DayNumber(CalendarDate(dt)))
               ELSE None

\* The text 2024-01-10 was counted on 2024-01-15.
C8_Witness ==
    /\ DiasReturned
    /\ dt = PyStr("2024-01-10") /\ hoje = PyDate(2024, 1, 15)
    /\ dias = PyInt(5)

---------------------------------------------------------------------------
(* _safe_get: the claim *)

SafeGetReturned == fn = "_safe_get" /\ pc = "return"

\* The value reached by following the keys through nested mappings; None
\* when a key is missing or the value on the way is no mapping.
RECURSIVE Follow(_, _)
Follow(cur, keys) ==
    IF keys = <<>> THEN cur
    ELSE IF cur.k = "dict" /\ Head(keys) \in DOMAIN cur.d
    THEN Follow(cur.d[Head(keys)], Tail(keys))
    ELSE None

\* C10: _safe_get returns the value found by following all the keys in
\* order, and the default when a step fails (the value is None, is no
\* mapping, or lacks the key) or the value found is None; it never raises
\* and leaves its arguments as they were.
C10_SafeGet ==
    SafeGetReturned =>
        sg_ret = IF Follow(sg.d, sg.keys) = None THEN sg.default
                 ELSE Follow(sg.d, sg.keys)

\* Two nested lookups found a value, although a default was given.
C10_Witness ==
    /\ SafeGetReturned
    /\ sg.keys = <<"a", "b">> /\ sg.default = PyStr("padrao")
    /\ sg_ret = PyStr("w")

---------------------------------------------------------------------------
(* app.py: the claim *)

\* C7: a CamaraAPIError raised by a call to the API client (the search, the
\* authors of a row, the tramitation events) ends the run in the except
\* CamaraAPIError clause and is never swallowed, while a failure in the
\* resolution of a row's author is swallowed and leaves that row's author None.
C7_ApiErrorsReachHandler ==
    fn = "app.py" =>
        /\ \A j \in 1..Len(calls) :
               calls[j].raises = "CamaraAPIError" =>
                   j = Len(calls) /\ pc = "except CamaraAPIError"
        /\ \A j \in 1..Len(swallowed) : swallowed[j] # "CamaraAPIError"
        /\ pc \in {"autores", "render", "detalhe", "done"} =>
               \A j \in 1..Len(autores_lista) :
                   int(df_api.rows[j].id).raises # "" => autores_lista[j] = None


\* The lookups made for the rows of the frame: authors and tramitation events.
RowLookups == {"autores_por_proposicao", "tramitacoes"}

\* The run has built its frame (line 100) and entered the author loop: it is
\* in the loop or past it, or it ended in a handler after the loop, which has
\* left, for each row, a call or a swallowed exception next to the search call.
FrameBuilt ==
    /\ fn = "app.py"
    /\ \/ pc \in {"autores", "render", "detalhe", "done"}
       \/ /\ pc \in {"except Exception", "except CamaraAPIError"}
          /\ Len(calls) + Len(swallowed) > 1

\* The author loop has been through every row of the frame.
AutoresDone == Len(autores_lista) = Len(df_api.rows)

\* C11: in a run of the app, no author lookup and no tramitation lookup is
\* ever issued for a row whose id is None (every such call is made for a row
\* with an id, and with that id); a row without id gets the author None, and
\* the loop goes on: every row with an id that the loop has passed, before or
\* after a row without one, has had its author lookup, and the loop only
\* ends after the last row.
C11_LookupsSkipAbsentId ==
    FrameBuilt =>
        /\ \A c \in 1..Len(calls) :
               calls[c].fn \in RowLookups =>
                   /\ calls[c].row \in 1..Len(df_api.rows)
                   /\ df_api.rows[calls[c].row].id # None
                   /\ calls[c].id = df_api.rows[calls[c].row].id
        /\ \A j \in 1..Len(autores_lista) :
               IF df_api.rows[j].id = None
               THEN autores_lista[j] = None
               ELSE \E c \in 1..Len(calls) :
                        calls[c].fn = "autores_por_proposicao" /\ calls[c].row = j
        /\ pc # "autores" => AutoresDone

\* A frame whose first row has no id and whose second has one: the second
\* row's author was fetched, then the first row was chosen for the detail and
\* the run ended in except Exception without a tramitation lookup.
C11_Witness ==
    /\ FrameBuilt /\ pc = "except Exception"
    /\ Len(df_api.rows) = 2
    /\ df_api.rows[1].id = None /\ df_api.rows[2].id # None
    /\ df_api.rows[1].rotulo # None /\ df_api.rows[2].rotulo # None
    /\ swallowed = <<"TypeError">>
    /\ row_escolha.id = None
    /\ \E c \in 1..Len(calls) :
           /\ calls[c].fn = "autores_por_proposicao" /\ calls[c].row = 2
           /\ calls[c].raises = ""
    /\ autores_lista[2] # None
    /\ \A c \in 1..Len(calls) : calls[c].fn # "tramitacoes"

===========================================================================
